---- MODULE Spec2Model ----
(***************************************************************************)
(* Model of the strategy evaluation engine: the three strategy variants    *)
(* (SMACrossover, RSIBB, VWAPReversion), their construction, signal        *)
(* generation, backtest and metrics, computed over exact rationals with    *)
(* the floating point specials NaN and +/-inf that pandas/numpy produce.   *)
(***************************************************************************)
EXTENDS Integers, Sequences, FiniteSets, TLC

(***************************************************************************)
(* Bounds of the model.                                                    *)
(***************************************************************************)
\* longest input series (rows of the caller's frame)
MaxLen == 4
\* Close prices are drawn from 1..MaxPrice
MaxPrice == 2

(***************************************************************************)
(* Floating point cells.  A cell is NaN, +/-inf or an exact rational n/d   *)
(* in lowest terms with d > 0.                                             *)
(***************************************************************************)
Abs(x) == IF x < 0 THEN -x ELSE x

Sign(x) == IF x < 0 THEN -1 ELSE IF x > 0 THEN 1 ELSE 0

RECURSIVE GCD(_, _)
GCD(a, b) == IF b = 0 THEN a ELSE GCD(b, a % b)

NaN == [k |-> "nan", n |-> 0, d |-> 1]

Inf(s) == [k |-> "inf", n |-> s, d |-> 1]

Rat(n, d) ==
    LET g == GCD(Abs(n), Abs(d))
        s == IF d < 0 THEN -1 ELSE 1
    IN  [k |-> "num", n |-> (s * n) \div g, d |-> (s * d) \div g]

Num(i) == Rat(i, 1)

IsNaN(x) == x.k = "nan"

IsInf(x) == x.k = "inf"

IsZero(x) == x.k = "num" /\ x.n = 0

\* sign of a non-NaN cell
SignOf(x) == Sign(x.n)

Neg(x) == IF IsNaN(x) THEN NaN ELSE [x EXCEPT !.n = -x.n]

Add(a, b) ==
    IF IsNaN(a) \/ IsNaN(b) THEN NaN
    ELSE IF IsInf(a) /\ IsInf(b) THEN (IF a.n = b.n THEN a ELSE NaN)
    ELSE IF IsInf(a) THEN a
    ELSE IF IsInf(b) THEN b
    ELSE Rat(a.n * b.d + b.n * a.d, a.d * b.d)

Sub(a, b) == Add(a, Neg(b))

Mul(a, b) ==
    IF IsNaN(a) \/ IsNaN(b) THEN NaN
    ELSE IF IsInf(a) \/ IsInf(b)
         THEN (IF IsZero(a) \/ IsZero(b) THEN NaN ELSE Inf(SignOf(a) * SignOf(b)))
    ELSE Rat(a.n * b.n, a.d * b.d)

\* IEEE division as numpy performs it on float64 columns: x/0 is +/-inf,
\* 0/0 and inf/inf are NaN, nothing raises.
Div(a, b) ==
    IF IsNaN(a) \/ IsNaN(b) THEN NaN
    ELSE IF IsInf(b) THEN (IF IsInf(a) THEN NaN ELSE Num(0))
    ELSE IF IsZero(b) THEN (IF IsZero(a) THEN NaN ELSE Inf(SignOf(a)))
    ELSE IF IsInf(a) THEN Inf(SignOf(a) * SignOf(b))
    ELSE Rat(a.n * b.d, a.d * b.n)

\* a < b on cells; every comparison with NaN is false
Lt(a, b) ==
    IF IsNaN(a) \/ IsNaN(b) THEN FALSE
    ELSE IF IsInf(a) THEN a.n < 0 /\ ~(IsInf(b) /\ b.n < 0)
    ELSE IF IsInf(b) THEN b.n > 0
    ELSE a.n * b.d < b.n * a.d

Gt(a, b) == Lt(b, a)

Le(a, b) == ~IsNaN(a) /\ ~IsNaN(b) /\ ~Lt(b, a)

\* a != b on cells, as Python evaluates it: NaN != x is true
Ne(a, b) == IsNaN(a) \/ IsNaN(b) \/ a # b

(***************************************************************************)
(* Values of the form a + c*sqrt(r) (a, c, r rational cells, r >= 0): the  *)
(* rolling standard deviation and the Bollinger bands built from it.  They *)
(* are kept symbolically and compared exactly.                             *)
(***************************************************************************)
Surd(a, c, r) == [k |-> "surd", a |-> a, c |-> c, r |-> r]

Sq(x) == Mul(x, x)

\* e < t for t of sign sc and square t2
LtRoot(e, t2, sc) ==
    IF sc >= 0
    THEN (IF SignOf(e) < 0 THEN TRUE ELSE Lt(Sq(e), t2))
    ELSE (IF SignOf(e) >= 0 THEN FALSE ELSE Lt(t2, Sq(e)))

\* x < a + c*sqrt(r) for a rational cell x
LtSurd(x, s) ==
    IF IsNaN(x) \/ IsNaN(s) THEN FALSE
    ELSE LtRoot(Sub(x, s.a), Mul(Sq(s.c), s.r), SignOf(s.c))

(***************************************************************************)
(* Column (pandas Series) operations on sequences of cells.                *)
(***************************************************************************)
\* a function on 1..n as the sequence of its values
AsSeq(f) == f \o <<>>

\* Series.diff(): the first entry has no predecessor and is NaN
diff(s) == AsSeq([i \in 1..Len(s) |-> IF i = 1 THEN NaN ELSE Sub(s[i], s[i - 1])])

\* Series.shift(1): every entry moves one row down, the first becomes NaN
shift(s) == AsSeq([i \in 1..Len(s) |-> IF i = 1 THEN NaN ELSE s[i - 1]])

\* Series.shift(-1): every entry moves one row up, the last becomes NaN
shift_back(s) == AsSeq([i \in 1..Len(s) |-> IF i = Len(s) THEN NaN ELSE s[i + 1]])

\* Series.pct_change(): s[i]/s[i-1] - 1, NaN in the first row
pct_change(s) ==
    AsSeq([i \in 1..Len(s) |->
        IF i = 1 THEN NaN ELSE Sub(Div(s[i], s[i - 1]), Num(1))])

\* Series.fillna(v)
fillna(s, v) == AsSeq([i \in 1..Len(s) |-> IF IsNaN(s[i]) THEN v ELSE s[i]])

\* a * b, row by row
times(a, b) == AsSeq([i \in 1..Len(a) |-> Mul(a[i], b[i])])

\* a / b, row by row
over(a, b) == AsSeq([i \in 1..Len(a) |-> Div(a[i], b[i])])

RECURSIVE SumCells(_, _, _)
\* s[lo] + ... + s[hi]
SumCells(s, lo, hi) == IF lo > hi THEN Num(0) ELSE Add(s[lo], SumCells(s, lo + 1, hi))

RECURSIVE SumSq(_, _, _, _)
\* (s[lo] - c)^2 + ... + (s[hi] - c)^2
SumSq(s, c, lo, hi) ==
    IF lo > hi THEN Num(0) ELSE Add(Sq(Sub(s[lo], c)), SumSq(s, c, lo + 1, hi))

\* Series.rolling(w).sum(): min_periods = w, so a window that is not full or
\* holds a NaN gives NaN
rolling_sum(s, w) ==
    AsSeq([i \in 1..Len(s) |-> IF i < w THEN NaN ELSE SumCells(s, i - w + 1, i)])

\* Series.rolling(w).mean()
rolling_mean(s, w) == over(rolling_sum(s, w), [i \in 1..Len(s) |-> Num(w)])

\* the sample variance (ddof = 1) of each trailing window of s about its
\* mean m[i]; a window of one observation has no sample variance
var_about(s, m, w) ==
    AsSeq([i \in 1..Len(s) |->
        IF i < w \/ w < 2 \/ IsNaN(m[i]) THEN NaN
        ELSE Div(SumSq(s, m[i], i - w + 1, i), Num(w - 1))])

\* the square of Series.rolling(w).std()
rolling_var(s, w) == var_about(s, rolling_mean(s, w), w)

\* the column of square roots of the variances v, as 0 + 1*sqrt(v[i])
roots(v) ==
    AsSeq([i \in 1..Len(v) |-> IF IsNaN(v[i]) THEN NaN ELSE Surd(Num(0), Num(1), v[i])])

\* Series.rolling(w).std()
rolling_std(s, w) == roots(rolling_var(s, w))

\* ma + c * sd, row by row (c a rational cell, sd a column of roots)
band(ma, c, sd) ==
    AsSeq([i \in 1..Len(ma) |->
        IF IsNaN(ma[i]) \/ IsNaN(sd[i]) THEN NaN ELSE Surd(ma[i], c, sd[i].r)])

(***************************************************************************)
(* Frames (pandas DataFrame): a function from column names to columns of   *)
(* equal length.  The row labels are kept under the name "index".          *)
(***************************************************************************)
NoFrame == [index |-> <<>>]

NRows(f) == Len(f["index"])

Columns(f) == DOMAIN f \ {"index"}

\* df[c] = s
SetCol(f, c, s) == (c :> s) @@ f

\* the rows of f at positions keep[1], keep[2], ... in that order
TakeRows(f, keep) ==
    [c \in DOMAIN f |-> AsSeq([j \in 1..Len(keep) |-> f[c][keep[j]]])] @@ <<>>

\* df.dropna(subset=...): a new frame holding the rows with no NaN in subset
dropna(f, subset) ==
    TakeRows(f, SelectSeq(AsSeq([i \in 1..NRows(f) |-> i]),
                          LAMBDA i : \A c \in subset : ~IsNaN(f[c][i])))

\* df[df['symbol'] == symbol]
FilterSymbol(f, symbol) ==
    TakeRows(f, SelectSeq(AsSeq([i \in 1..NRows(f) |-> i]),
                          LAMBDA i : f["symbol"][i] = symbol))

(***************************************************************************)
(* RSIBB.generate_signals                                                  *)
(***************************************************************************)
\* gain = delta.where(delta > 0, 0)
rsi_gain(delta) ==
    AsSeq([i \in 1..Len(delta) |-> IF Gt(delta[i], Num(0)) THEN delta[i] ELSE Num(0)])

\* loss = -delta.where(delta < 0, 0)
rsi_loss(delta) ==
    AsSeq([i \in 1..Len(delta) |->
        Neg(IF Lt(delta[i], Num(0)) THEN delta[i] ELSE Num(0))])

\* avg_gain = gain.rolling(rsi_period).mean()
rsi_avg_gain(close, rsi_period) == rolling_mean(rsi_gain(diff(close)), rsi_period)

\* avg_loss = loss.rolling(rsi_period).mean()
rsi_avg_loss(close, rsi_period) == rolling_mean(rsi_loss(diff(close)), rsi_period)

\* 100 - (100 / (1 + rs))
rsi_of(rs) ==
    AsSeq([i \in 1..Len(rs) |-> Sub(Num(100), Div(Num(100), Add(Num(1), rs[i])))])

\* rs = avg_gain / avg_loss; df['RSI'] = 100 - (100 / (1 + rs))
rsi(close, rsi_period) ==
    rsi_of(over(rsi_avg_gain(close, rsi_period), rsi_avg_loss(close, rsi_period)))

RSIBB_rsi(df, p) == SetCol(df, "RSI", rsi(df["Close"], p.rsi_period))

RSIBB_bb_ma(df, p) == SetCol(df, "BB_MA", rolling_mean(df["Close"], p.bb_window))

RSIBB_bb_upper(df, p) ==
    SetCol(df, "BB_Upper",
           band(df["BB_MA"], Num(p.bb_std), rolling_std(df["Close"], p.bb_window)))

RSIBB_bb_lower(df, p) ==
    SetCol(df, "BB_Lower",
           band(df["BB_MA"], Num(-p.bb_std), rolling_std(df["Close"], p.bb_window)))

\* np.where((df['RSI'] < 30) & (df['Close'] < df['BB_Lower']), 1, 0)
RSIBB_signal(df) ==
    SetCol(df, "Signal",
           AsSeq([i \in 1..NRows(df) |->
               IF Lt(df["RSI"][i], Num(30)) /\ LtSurd(df["Close"][i], df["BB_Lower"][i])
               THEN Num(1) ELSE Num(0)]))

\* df['Position'] = df['Signal'].diff()
with_position(df) == SetCol(df, "Position", diff(df["Signal"]))

\* the working frame of RSIBB.generate_signals after its column assignments
RSIBB_columns(df, p) ==
    with_position(RSIBB_signal(RSIBB_bb_lower(RSIBB_bb_upper(
        RSIBB_bb_ma(RSIBB_rsi(df, p), p), p), p)))

\* a trimming step that forgets the RSI column
RSIBB_dropna_bands_only(df) == dropna(df, {"BB_Lower", "BB_Upper", "Signal"})

\* the trimming step of RSIBB.generate_signals
RSIBB_dropna(df) == dropna(df, {"RSI", "BB_Lower", "BB_Upper", "Signal"})

(***************************************************************************)
(* VWAPReversion.generate_signals                                          *)
(***************************************************************************)
VWAP_cum_volume(df, p) ==
    SetCol(df, "CumVolume", rolling_sum(df["Volume"], p.vwap_window))

VWAP_cum_pv(df, p) ==
    SetCol(df, "CumPV", rolling_sum(times(df["Close"], df["Volume"]), p.vwap_window))

VWAP_vwap(df) == SetCol(df, "VWAP", over(df["CumPV"], df["CumVolume"]))

\* (df['VWAP'] - df['Close']) / df['VWAP']
VWAP_deviation(df) ==
    SetCol(df, "Deviation",
           AsSeq([i \in 1..NRows(df) |->
               Div(Sub(df["VWAP"][i], df["Close"][i]), df["VWAP"][i])]))

\* np.where(df['Deviation'] > self.threshold, 1, 0)
VWAP_signal(df, p) ==
    SetCol(df, "Signal",
           AsSeq([i \in 1..NRows(df) |->
               IF Gt(df["Deviation"][i], p.threshold) THEN Num(1) ELSE Num(0)]))

\* the working frame of VWAPReversion.generate_signals after its column
\* assignments
VWAP_columns(df, p) ==
    with_position(VWAP_signal(VWAP_deviation(VWAP_vwap(
        VWAP_cum_pv(VWAP_cum_volume(df, p), p))), p))

\* a return that trims the warm-up rows as RSIBB does
VWAP_return_trimmed(df) == dropna(df, {"VWAP"})

\* the untrimmed return of VWAPReversion.generate_signals
VWAP_return(df) == df

(***************************************************************************)
(* SMACrossover.generate_signals                                           *)
(***************************************************************************)
SMA_short(df, p) == SetCol(df, "SMA_short", rolling_mean(df["Close"], p.short_window))

SMA_long(df, p) == SetCol(df, "SMA_long", rolling_mean(df["Close"], p.long_window))

SMA_volatility(df, p) ==
    SetCol(df, "Volatility",
           rolling_std(pct_change(df["Close"]), p.volatility_window))

SMA_signal(df, p) ==
    SetCol(df, "Signal",
           AsSeq([i \in 1..NRows(df) |->
               IF Gt(df["SMA_short"][i], df["SMA_long"][i])
                  /\ LtSurd(p.volatility_threshold, df["Volatility"][i])
               THEN Num(1) ELSE Num(0)]))

\* the working frame of SMACrossover.generate_signals after its column
\* assignments
SMA_columns(df, p) ==
    with_position(SMA_signal(SMA_volatility(SMA_long(SMA_short(df, p), p), p), p))

(***************************************************************************)
(* Backtest and metrics of RSIBB and VWAPReversion                         *)
(***************************************************************************)
RECURSIVE ProdCells(_, _)
\* the product of the non-NaN cells among s[1..i]
ProdCells(s, i) ==
    IF i = 0 THEN Num(1)
    ELSE IF IsNaN(s[i]) THEN ProdCells(s, i - 1)
    ELSE Mul(ProdCells(s, i - 1), s[i])

\* Series.cumprod(): NaN entries are skipped by the running product and stay NaN
cumprod(s) == AsSeq([i \in 1..Len(s) |-> IF IsNaN(s[i]) THEN NaN ELSE ProdCells(s, i)])

\* the larger of two cells, NaN counting as absent
MaxCell(m, x) == IF IsNaN(x) THEN m ELSE IF IsNaN(m) \/ Lt(m, x) THEN x ELSE m

\* the smaller of two cells, NaN counting as absent
MinCell(m, x) == IF IsNaN(x) THEN m ELSE IF IsNaN(m) \/ Lt(x, m) THEN x ELSE m

RECURSIVE MaxCells(_, _)
\* the largest non-NaN cell among s[1..i], NaN when there is none
MaxCells(s, i) == IF i = 0 THEN NaN ELSE MaxCell(MaxCells(s, i - 1), s[i])

\* Series.cummax(): NaN entries are skipped and stay NaN
cummax(s) == AsSeq([i \in 1..Len(s) |-> IF IsNaN(s[i]) THEN NaN ELSE MaxCells(s, i)])

RECURSIVE MinCells(_, _)
\* the smallest non-NaN cell among s[1..i], NaN when there is none
MinCells(s, i) == IF i = 0 THEN NaN ELSE MinCell(MinCells(s, i - 1), s[i])

\* Series.min(): skips NaN, NaN for a column with no defined entry
series_min(s) == MinCells(s, Len(s))

\* the defined entries of a column, in order
Defined(s) == SelectSeq(s, LAMBDA x : ~IsNaN(x))

\* the mean of a column without NaN, NaN when it is empty
mean_of(v) == Div(SumCells(v, 1, Len(v)), Num(Len(v)))

\* Series.mean(): skips NaN
series_mean(s) == mean_of(Defined(s))

\* the sample variance (ddof = 1) of a column v without NaN about its mean m,
\* NaN when it has fewer than two entries
var_of(v, m) ==
    IF Len(v) < 2 THEN NaN ELSE Div(SumSq(v, m, 1, Len(v)), Num(Len(v) - 1))

\* the square of Series.std(): skips NaN
series_var(s) == var_of(Defined(s), series_mean(s))

\* df['Return'] = df['Close'].pct_change()
with_return(df) == SetCol(df, "Return", pct_change(df["Close"]))

\* df['Strategy'] = df['Return'] * df['Position'].shift(1)
with_strategy(df) ==
    SetCol(df, "Strategy", times(df["Return"], shift(df["Position"])))

\* df['Strategy'] = df['Strategy'].fillna(0)
with_strategy_filled(df) == SetCol(df, "Strategy", fillna(df["Strategy"], Num(0)))

\* 1 + s, row by row
one_plus(s) == AsSeq([i \in 1..Len(s) |-> Add(Num(1), s[i])])

\* df['Equity'] = (1 + df['Strategy']).cumprod()
with_equity(df) == SetCol(df, "Equity", cumprod(one_plus(df["Strategy"])))

\* the column assignments of RSIBB.run_backtest on the frame of generate_signals
RSIBB_backtest_columns(df) == with_equity(with_strategy(with_return(df)))

\* the column assignments of VWAPReversion.run_backtest
VWAP_backtest_columns(df) ==
    with_equity(with_strategy_filled(with_strategy(with_return(df))))

\* bars per year of one-minute data
Annualization == 252 * 24 * 60

\* mean / std * sqrt(Annualization) when std != 0, else NaN; kept as its mean
\* and variance
sharpe(mean, var) ==
    IF Ne(var, Num(0))
    THEN (IF IsNaN(var) \/ IsNaN(mean) THEN NaN
          ELSE [k |-> "sharpe", mean |-> mean, var |-> var, ann |-> Annualization])
    ELSE NaN

\* (E / peak - 1).min()
drawdown(E, peak) ==
    series_min(AsSeq([i \in 1..Len(E) |-> Sub(Div(E[i], peak[i]), Num(1))]))

\* the body of get_metrics of RSIBB and VWAPReversion on the frame of
\* run_backtest; iloc[-1] of an empty column raises
metrics(df) ==
    IF NRows(df) = 0
    THEN [kind |-> "raise", exc |-> "IndexError"]
    ELSE [kind |-> "metrics",
          total_return |-> Sub(df["Equity"][NRows(df)], Num(1)),
          sharpe_ratio |-> sharpe(series_mean(df["Strategy"]), series_var(df["Strategy"])),
          max_drawdown |-> drawdown(df["Equity"], cummax(df["Equity"]))]

(***************************************************************************)
(* Objects.  Frames are mutable objects: heap maps an object name to the   *)
(* frame it holds.  "caller" is the frame the caller passes in, "own" a    *)
(* frame built by a constructor, "tmp" a fresh object local to one call.   *)
(***************************************************************************)
VARIABLES
    variant,      \* the Strategy class under test
    params,       \* its constructor parameters
    requested,    \* the instrument the caller wants to backtest
    original,     \* the caller's frame as it was when handed over
    heap,         \* object name -> frame
    status,       \* "new", "ready" (constructed) or "raised" (constructor raised)
    price_data,   \* the object self.price_data refers to ("none" before construction)
    last_call,    \* the last method called on the instance
    ret,          \* what that call returned or raised
    prev_ret      \* what the call before it returned, when both were generate_signals

vars == <<variant, params, requested, original, heap, status, price_data,
          last_call, ret, prev_ret>>

None == [kind |-> "None"]

FrameResult(df) == [kind |-> "frame", df |-> df]

\* df = self.price_data: the working frame is the stored frame itself
WorkingFrame_alias(ref) == ref

\* df = self.price_data.copy(): the working frame is a fresh object
WorkingFrame(ref) == "tmp"

\* h after the frame named ref (if it is not a local object) has become df
Store(h, ref, df) == IF ref = "tmp" THEN h ELSE [h EXCEPT ![ref] = df]

\* the column assignments of generate_signals of variant v on the frame df
signal_columns(v, df, p) ==
    CASE v = "RSIBB" -> RSIBB_columns(df, p)
      [] v = "VWAPReversion" -> VWAP_columns(df, p)
      [] v = "SMACrossover" -> SMA_columns(df, p)

\* what generate_signals returns once the working frame w holds cols: the
\* frame, the object that frame is, and the heap
signals_result(h, w, v, cols) ==
    IF v = "RSIBB"
    THEN [df |-> RSIBB_dropna(cols), ref |-> "tmp", heap |-> Store(h, w, cols)]
    ELSE [df |-> IF v = "VWAPReversion" THEN VWAP_return(cols) ELSE cols,
          ref |-> w, heap |-> Store(h, w, cols)]

\* generate_signals of each variant
generate_signals(h, self, v, p) ==
    signals_result(h, WorkingFrame(self), v, signal_columns(v, h[self], p))

\* the frame run_backtest returns once it has assigned its columns to the
\* frame g.df of generate_signals, and the heap
backtest_result(g, out) == [df |-> out, heap |-> Store(g.heap, g.ref, out)]

backtest_columns(v, df) ==
    IF v = "RSIBB" THEN RSIBB_backtest_columns(df) ELSE VWAP_backtest_columns(df)

backtest_of(v, g) == backtest_result(g, backtest_columns(v, g.df))

\* run_backtest of RSIBB and VWAPReversion
run_backtest(h, self, v, p) == backtest_of(v, generate_signals(h, self, v, p))

\* the portfolio of the external simulator, kept as the three columns handed
\* to it: close, entries = Signal, exits = Signal.shift(-1)
portfolio_of(g) ==
    [ret |-> [kind |-> "portfolio", close |-> g.df["Close"],
              entries |-> g.df["Signal"], exits |-> shift_back(g.df["Signal"])],
     heap |-> g.heap]

\* SMACrossover.run_backtest
sma_run_backtest(h, self, p) ==
    portfolio_of(generate_signals(h, self, "SMACrossover", p))

\* get_metrics of RSIBB and VWAPReversion
metrics_of(b) == [ret |-> metrics(b.df), heap |-> b.heap]

get_metrics(h, self, v, p) == metrics_of(run_backtest(h, self, v, p))

(***************************************************************************)
(* Inputs                                                                  *)
(***************************************************************************)
Symbols == {"ETHBTC", "LTCBTC"}

\* longest multi-instrument frame
MaxMultiLen == 2

Variants == {"SMACrossover", "RSIBB", "VWAPReversion"}

RSIBBParams ==
    { [rsi_period |-> w[1], bb_window |-> w[2], bb_std |-> w[3]]
      : w \in {<<2, 3, 1>>, <<1, 3, 1>>, <<2, 2, 2>>, <<1, 2, 1>>} }

VWAPParams == [vwap_window : {1, 2}, threshold : {Rat(1, 100)}]

SMAParams ==
    { [short_window |-> w[1], long_window |-> w[2], volatility_window |-> 2,
       volatility_threshold |-> Rat(5, 1000)] : w \in {<<1, 2>>, <<2, 3>>, <<2, 1>>} }

ParamsOf(v) ==
    CASE v = "RSIBB" -> RSIBBParams
      [] v = "VWAPReversion" -> VWAPParams
      [] v = "SMACrossover" -> SMAParams

\* volume columns of n rows: traded every bar, never traded, traded every
\* other bar, rising volume
VolumeColumns(n) ==
    { [i \in 1..n |-> Num(1)], [i \in 1..n |-> Num(0)],
      [i \in 1..n |-> Num(i % 2)], [i \in 1..n |-> Num(i)] }

CloseColumns(n) == [1..n -> {Num(c) : c \in 1..MaxPrice}]

\* single-instrument frames: no symbol column
PlainFrames(v) ==
    UNION { { [index |-> [i \in 1..n |-> i], Close |-> c, Volume |-> vol]
              : c \in CloseColumns(n),
                vol \in IF v = "VWAPReversion" THEN VolumeColumns(n)
                        ELSE {[i \in 1..n |-> Num(1)]} }
            : n \in 1..MaxLen }

\* multi-instrument frames: every row tagged by a symbol column
MultiFrames ==
    UNION { { [index |-> [i \in 1..n |-> i], Close |-> c,
               Volume |-> [i \in 1..n |-> Num(1)], symbol |-> sy]
              : c \in CloseColumns(n), sy \in [1..n -> Symbols] }
            : n \in 1..MaxMultiLen }

Init ==
    /\ variant \in Variants
    /\ params \in ParamsOf(variant)
    /\ \/ /\ original \in PlainFrames(variant)
          /\ requested = "ETHBTC"
       \/ /\ original \in MultiFrames
          /\ requested \in Symbols
    /\ heap = [caller |-> original, own |-> NoFrame]
    /\ status = "new"
    /\ price_data = "none"
    /\ last_call = "none"
    /\ ret = None
    /\ prev_ret = None

(***************************************************************************)
(* Construction                                                            *)
(***************************************************************************)
\* SMACrossover.__init__: the instrument filter, then StrategyBase.__init__
SMACrossover_init ==
    LET given == heap["caller"]
        tagged == "symbol" \in Columns(given)
        chosen == IF tagged THEN FilterSymbol(given, requested) ELSE given
    IN  IF NRows(chosen) = 0
        THEN /\ status' = "raised"
             /\ ret' = [kind |-> "raise", exc |-> "ValueError"]
             /\ UNCHANGED <<heap, price_data>>
        ELSE /\ status' = "ready"
             /\ ret' = None
             /\ heap' = IF tagged THEN [heap EXCEPT !["own"] = chosen] ELSE heap
             /\ price_data' = IF tagged THEN "own" ELSE "caller"

\* RSIBB.__init__ and VWAPReversion.__init__: StrategyBase.__init__ keeps the
\* caller's frame object itself
StrategyBase_init ==
    /\ status' = "ready"
    /\ ret' = None
    /\ price_data' = "caller"
    /\ UNCHANGED heap

Construct ==
    /\ status = "new"
    /\ IF variant = "SMACrossover" THEN SMACrossover_init ELSE StrategyBase_init
    /\ last_call' = "__init__"
    /\ UNCHANGED <<variant, params, requested, original, prev_ret>>

(***************************************************************************)
(* The three operations                                                    *)
(***************************************************************************)
GenerateSignals ==
    /\ status = "ready"
    /\ \E g \in {generate_signals(heap, price_data, variant, params)} :
          /\ ret' = FrameResult(g.df)
          /\ heap' = g.heap
    /\ prev_ret' = IF last_call = "generate_signals" THEN ret ELSE None
    /\ last_call' = "generate_signals"
    /\ UNCHANGED <<variant, params, requested, original, status, price_data>>

RunBacktest ==
    /\ status = "ready"
    /\ IF variant = "SMACrossover"
       THEN \E b \in {sma_run_backtest(heap, price_data, params)} :
               /\ ret' = b.ret
               /\ heap' = b.heap
       ELSE \E b \in {run_backtest(heap, price_data, variant, params)} :
               /\ ret' = FrameResult(b.df)
               /\ heap' = b.heap
    /\ last_call' = "run_backtest"
    /\ prev_ret' = None
    /\ UNCHANGED <<variant, params, requested, original, status, price_data>>

GetMetrics ==
    /\ status = "ready"
    /\ IF variant = "SMACrossover"
       THEN /\ ret' = None
            /\ UNCHANGED heap
       ELSE \E m \in {get_metrics(heap, price_data, variant, params)} :
               /\ ret' = m.ret
               /\ heap' = m.heap
    /\ last_call' = "get_metrics"
    /\ prev_ret' = None
    /\ UNCHANGED <<variant, params, requested, original, status, price_data>>

Next == Construct \/ GenerateSignals \/ RunBacktest \/ GetMetrics

Spec == Init /\ [][Next]_vars

(***************************************************************************)
(* Properties                                                              *)
(***************************************************************************)
Computes == {"RSIBB", "VWAPReversion"}

Backtested == status = "ready" /\ last_call = "run_backtest" /\ variant \in Computes

Measured == status = "ready" /\ last_call = "get_metrics"

Signalled == status = "ready" /\ last_call = "generate_signals"

Max2(a, b) == IF a > b THEN a ELSE b

\* the number of rows an indicator of the variant needs before it is defined
WarmUp ==
    CASE variant = "RSIBB" -> Max2(params.rsi_period, params.bb_window)
      [] variant = "VWAPReversion" -> params.vwap_window
      [] variant = "SMACrossover" ->
            Max2(Max2(params.short_window, params.long_window),
                 params.volatility_window + 1)

IsFlat(f) == \A i \in 1..NRows(f) : f["Close"][i] = f["Close"][1]

\* C1: in run_backtest of RSIBB and VWAPReversion, at every bar t with a
\* previous bar the strategy return is raw_return[t] * Signal[t-1] (the held
\* signal of the previous bar, not its position delta).
C1_ExposureIsHeldSignal ==
    Backtested =>
        LET df == ret.df
            raw == pct_change(df["Close"])
        IN  \A t \in 2..NRows(df) :
                df["Strategy"][t] = Mul(raw[t], df["Signal"][t - 1])

\* C2 as stated: run_backtest returns exactly as many Equity entries as the
\* input series has rows, for every variant that computes an equity curve.
C2_EquityLenIsInputLen ==
    Backtested => Len(ret.df["Equity"]) = NRows(original)

\* C2 amended: VWAPReversion returns one Equity entry per input row; RSIBB
\* returns one Equity entry per row that generate_signals retains, which are
\* at most the input rows from the longest warm-up row on.
C2_EquityLenPerVariant ==
    Backtested =>
        LET df == ret.df
        IN  /\ Len(df["Equity"]) = NRows(df)
            /\ variant = "VWAPReversion" => df["index"] = original["index"]
            /\ variant = "RSIBB" =>
                  /\ NRows(df) <= NRows(original)
                  /\ \A j \in 1..NRows(df) :
                        df["index"][j] \in WarmUp..NRows(original)

C2_Witness ==
    /\ Backtested
    /\ variant = "RSIBB"
    /\ NRows(ret.df) > 0
    /\ NRows(ret.df) < NRows(original)

\* C3: on a constant-price series each variant yields Signal = 0 at every bar
\* and get_metrics returns total_return = 0, sharpe_ratio = NaN and
\* max_drawdown = 0.
C3_FlatSeriesMetrics ==
    /\ (Signalled /\ IsFlat(original)) =>
          \A i \in 1..NRows(ret.df) : ret.df["Signal"][i] = Num(0)
    /\ (Measured /\ IsFlat(original)) =>
          /\ ret.kind = "metrics"
          /\ ret.total_return = Num(0)
          /\ IsNaN(ret.sharpe_ratio)
          /\ ret.max_drawdown = Num(0)

\* C4: constructing any variant for an instrument absent from a
\* multi-instrument frame raises at construction time.
C4_AbsentInstrumentRaises ==
    ( /\ status # "new"
      /\ "symbol" \in Columns(original)
      /\ \A i \in 1..NRows(original) : original["symbol"][i] # requested )
    => status = "raised"

\* C5: the frame of RSIBB.generate_signals has at most as many rows as the
\* input, its rows are input rows in their original order, and every row has
\* RSI, BB_Lower, BB_Upper and Signal defined.
C5_TrimmedFrameIsDefined ==
    (Signalled /\ variant = "RSIBB") =>
        LET df == ret.df
        IN  /\ NRows(df) <= NRows(original)
            /\ \A j \in 1..NRows(df) :
                  /\ df["index"][j] \in 1..NRows(original)
                  /\ j > 1 => df["index"][j - 1] < df["index"][j]
                  /\ \A c \in Columns(original) :
                        df[c][j] = original[c][df["index"][j]]
                  /\ \A c \in {"RSI", "BB_Lower", "BB_Upper", "Signal"} :
                        ~IsNaN(df[c][j])

C5_Witness ==
    /\ Signalled
    /\ variant = "RSIBB"
    /\ NRows(ret.df) > 0
    /\ NRows(ret.df) < NRows(original) - (WarmUp - 1)

\* C6: every entry of the equity curve of run_backtest is defined, in RSIBB
\* and in VWAPReversion.
C6_EquityHasNoGaps ==
    Backtested => \A i \in 1..NRows(ret.df) : ~IsNaN(ret.df["Equity"][i])

\* C7: whenever get_metrics returns a result, max_drawdown is a defined
\* number <= 0.
C7_DrawdownNonPositive ==
    (Measured /\ ret.kind = "metrics") => Le(ret.max_drawdown, Num(0))

\* C8: on a non-empty series shorter than the longest warm-up, run_backtest
\* and get_metrics return a result and never raise.
C8_ShortSeriesNeverRaises ==
    ( /\ status = "ready"
      /\ last_call \in {"run_backtest", "get_metrics"}
      /\ NRows(original) > 0
      /\ NRows(original) < WarmUp )
    => ret.kind # "raise"

\* C9: after any sequence of generate_signals, run_backtest and get_metrics
\* calls the caller's frame and the instance's price_data are unchanged (no
\* derived column added), and two successive generate_signals calls return
\* identical frames.
C9_InputsUntouched ==
    /\ heap["caller"] = original
    /\ status = "ready" =>
          /\ Columns(heap[price_data]) = Columns(original)
          /\ price_data = "own" => heap["own"] = FilterSymbol(original, requested)
    /\ (Signalled /\ prev_ret # None) => prev_ret = ret

C9_Witness ==
    /\ Signalled
    /\ prev_ret # None
    /\ NRows(ret.df) > 0
    /\ "Signal" \in Columns(ret.df)

\* C10: in the frame of RSIBB.generate_signals, at every bar where the
\* trailing average loss is 0 the RSI is NaN (never 100) and the Signal is 0.
C10_ZeroLossRsiUndefined ==
    (Signalled /\ variant = "RSIBB") =>
        LET df == ret.df
            avg_loss == rsi_avg_loss(original["Close"], params.rsi_period)
        IN  \A j \in 1..NRows(df) :
                IsZero(avg_loss[df["index"][j]]) =>
                    (IsNaN(df["RSI"][j]) /\ df["Signal"][j] = Num(0))

====
